---- MODULE Spec2Model ----
(***************************************************************************)
(* Model of the Telegram -> Wasabi relay handlers.                         *)
(*                                                                         *)
(*   file_handler / upload_to_wasabi / generate_presigned_url              *)
(*       src/deepseek_python_20251003_7b178d.py                            *)
(*   FileHandler.handle_file_upload   src/file_handlers.py                 *)
(*   WasabiClient.upload_file         src/wasabi_client.py                 *)
(*                                                                         *)
(* One job is followed from the arrival of the file message to the point   *)
(* where the handler gives control back to the dispatcher.  Every await of *)
(* the handler is one step.  The collaborators (chat platform, object      *)
(* store, file system) answer each call with any outcome they can give.    *)
(***************************************************************************)
EXTENDS Integers, Sequences, FiniteSets, TLC

VARIABLES
    handler,      \* which handler runs the job
    pc,           \* position of the handler
    file_size,    \* media.file_size, as <<MiB, bytes below one MiB>>
    fileExists,   \* os.path.exists(file_path) / os.path.exists(temp_path)
    attempt,      \* loop variable of upload_to_wasabi
    delay,        \* delay computed for the pending backoff sleep
    upl,          \* how upload_to_wasabi ended: "pending", "True", "False", "raised"
    url,          \* presigned_url: "unset", "url" or "None"
    status,       \* text currently shown by the status message
    exc,          \* exception caught by the handler's except clause
    escaped,      \* exception that left the handler
    log,          \* calls made to the collaborators, in order
    \* --- the progress reporters ---
    reporter,     \* which progress reporter is called
    now,          \* time.time(), in whole seconds
    last,         \* the reporter's last-update entry for this message
    ptotal,       \* total size of the transfer being reported
    seen,         \* BotoProgress._seen_so_far
    prevEmit,     \* time of the latest edit sent to the display
    call,         \* the latest call of the reporter and what it did
    \* --- the rate limiter ---
    clock,        \* datetime.now(), in seconds
    user_uploads, \* RateLimiter.user_uploads: user -> list of timestamps
    accepted,     \* per user, the times of the calls of is_limited that returned False
    ncalls,       \* calls of is_limited that returned False so far
    nticks,       \* clock advances made so far
    rcall,        \* the latest call of is_limited: user and result
    \* --- jobs side by side on one event loop ---
    variant,      \* which program runs: the handler all its jobs go through
    jobs,         \* per job: position, chat, file name, timestamp, status message,
                  \* the text it shows and whether a progress edit is under way
    disk,         \* local files: path -> the job whose download wrote it
    bucket,       \* stored objects: key -> the job whose download was sent
    last_update_time, \* last_update_time / progress_tracker: message id -> entry
    wall,         \* time.time(), in whole seconds
    blocking,     \* the job whose call holds the event loop, or NoJob
    \* --- bot.py: FileSharingBot, Storage, WasabiStorage ---
    client_up,    \* WasabiStorage.s3_client is not None
    sink,         \* keys of the objects stored in the bucket
    files,        \* Storage.data["files"]: file_id -> file_data
    total_files,  \* Storage.data["stats"]["total_files"]
    total_size,   \* Storage.data["stats"]["total_size"]
    temp_data,    \* FileSharingBot.temp_data: user -> pending_caption entry
    bcall,        \* the latest update handled by the bot and what it did
    bsteps,       \* updates handled so far
    \* --- database.py: Database, under FileHandler.handle_file_upload ---
    db_files,     \* table files: file_id -> row
    dcall,        \* the latest call and what it did
    dsteps,       \* calls made so far
    \* --- UserManager and the admin commands ---
    allowed_users, \* UserManager.allowed_users
    users_file,   \* content of allowed_users.json
    ucall,        \* the latest command handled
    usteps        \* commands handled so far

jobVars == <<handler, pc, file_size, fileExists, attempt, delay, upl, url,
             status, exc, escaped, log>>

progVars == <<reporter, now, last, ptotal, seen, prevEmit, call>>

rateVars == <<clock, user_uploads, accepted, ncalls, nticks, rcall>>

concVars == <<variant, jobs, disk, bucket, last_update_time, wall, blocking>>

botVars == <<client_up, sink, files, total_files, total_size, temp_data, bcall, bsteps>>

dbVars == <<db_files, dcall, dsteps>>

userVars == <<allowed_users, users_file, ucall, usteps>>

vars == <<jobVars, progVars, rateVars, concVars, botVars, dbVars, userVars>>

\* the variables a step of a job handler leaves alone
notJobVars == <<progVars, rateVars, concVars, botVars, dbVars, userVars>>

----------------------------------------------------------------------------
(* Constants of the program *)

max_retries == 3

base_delay == 2

\* One MiB, the unit of the first component of a size.
MiB == 1024 * 1024

\* 4 * 1024 * 1024 * 1024 bytes, written as <<MiB, bytes>>.
MAX_FILE_SIZE == <<4 * 1024, 0>>

\* a > b on byte counts written as <<MiB, bytes>>
SizeGT(a, b) == \/ a[1] > b[1]
                \/ a[1] = b[1] /\ a[2] > b[2]

\* the >= that a slip of the comparison would give
SizeExceedsOrEqual(size) == size = MAX_FILE_SIZE \/ SizeGT(size, MAX_FILE_SIZE)

\* file_size > 4 * 1024 * 1024 * 1024   /   file.file_size > config.MAX_FILE_SIZE
SizeExceeds(size) == SizeGT(size, MAX_FILE_SIZE)

\* The declared sizes tried: empty, just under, exactly at, just over and well
\* over the ceiling.
Sizes == { <<0, 0>>, <<4095, MiB - 1>>, <<4096, 0>>, <<4096, 1>>, <<5120, 0>> }

\* Error codes a botocore ClientError can carry.
ClientErrorCodes == {"SlowDown", "AccessDenied", "InvalidAccessKeyId", "NoSuchBucket"}

\* What s3_client.upload_file can do: succeed, raise ClientError with a code,
\* or raise an exception that is not a ClientError.
UploadOutcomes == {"ok"} \cup ClientErrorCodes \cup {"EndpointConnectionError"}

\* What s3_client.generate_presigned_url can do.
PresignOutcomes == {"url", "AccessDenied", "NoCredentialsError"}

NoExc == <<"none", "none">>

Handlers == {"file_handler", "handle_file_upload", "handle_file_download"}

----------------------------------------------------------------------------
(* RateLimiter, src/deepseek_python_20251003_7b178d.py 92-118 *)

\* line 96: max_uploads=10
max_uploads == 10

\* line 96: time_window=3600
time_window == 3600

Users == {"u1", "u2"}

\* accepted uploads followed, over all users
MaxCalls == 12

\* clock advances followed
MaxRateTicks == 2

\* how far the clock moves in one advance
Advances == {1, time_window - 1}

NoRateCall == [user |-> "none", result |-> FALSE]

\* the rate limiter is not running
RateOff ==
    /\ clock = 0
    /\ user_uploads = <<>>
    /\ accepted = <<>>
    /\ ncalls = 0
    /\ nticks = 0
    /\ rcall = NoRateCall

\* line 94: self.user_uploads = defaultdict(list)
RateInit ==
    /\ clock = 0
    /\ user_uploads = [u \in Users |-> <<>>]
    /\ accepted = [u \in Users |-> <<>>]
    /\ ncalls = 0
    /\ nticks = 0
    /\ rcall = NoRateCall

\* lines 99-102 and 114-117: drop the entries time_window old or older
Prune(stamps, t) == SelectSeq(stamps, LAMBDA ts : t - ts < time_window)

\* the test of line 105 with > for >=
LimitReachedOffByOne(n) == n > max_uploads

\* line 105: len(self.user_uploads[user_id]) >= max_uploads
LimitReached(n) == n >= max_uploads

\* lines 96-110: is_limited(user_id), as file_handler calls it (line 550)
IsLimited ==
    /\ ncalls < MaxCalls
    /\ \E u \in Users :
         LET kept == Prune(user_uploads[u], clock)
         IN IF LimitReached(Len(kept))
              THEN /\ user_uploads' = [user_uploads EXCEPT ![u] = kept]
                   /\ rcall' = [user |-> u, result |-> TRUE]
                   /\ UNCHANGED <<accepted, ncalls>>
              ELSE /\ user_uploads' = [user_uploads EXCEPT ![u] = Append(kept, clock)]
                   /\ rcall' = [user |-> u, result |-> FALSE]
                   /\ accepted' = [accepted EXCEPT ![u] = Append(@, clock)]
                   /\ ncalls' = ncalls + 1
    /\ UNCHANGED <<clock, nticks>>
    /\ UNCHANGED <<jobVars, progVars, concVars, botVars, dbVars, userVars>>

\* lines 112-118: get_remaining_uploads(user_id)
GetRemainingUploads ==
    /\ \E u \in Users :
         user_uploads' = [user_uploads EXCEPT ![u] = Prune(user_uploads[u], clock)]
    /\ UNCHANGED <<clock, accepted, ncalls, nticks, rcall>>
    /\ UNCHANGED <<jobVars, progVars, concVars, botVars, dbVars, userVars>>

\* time passes between two messages; datetime.now() is taken not to run backwards
RateTick ==
    /\ nticks < MaxRateTicks
    /\ \E d \in Advances : clock' = clock + d
    /\ nticks' = nticks + 1
    /\ UNCHANGED <<user_uploads, accepted, ncalls, rcall>>
    /\ UNCHANGED <<jobVars, progVars, concVars, botVars, dbVars, userVars>>

----------------------------------------------------------------------------
(* Jobs side by side on one event loop.  Each program registers one file   *)
(* handler, and every file message starts a job in it:                     *)
(*   file_handler        src/deepseek_python_20251003_7b178d.py 544-655    *)
(*   handle_file_upload  src/file_handlers.py 15-121                       *)
(*   upload_handler      src/bot/handlers.py 94-158                        *)
(* A job is followed from its status message to its cleanup; a step is the *)
(* code between two awaits.                                                *)

Variants == {"file_handler", "handle_file_upload", "upload_handler"}

\* jobs followed
NumJobs == 2

\* message ids run over 1..MaxMsgId
MaxMsgId == 2

\* seconds the wall clock is followed
MaxWall == 1

\* the wall clock when the first job starts
WallStart == 5

Jobs == 1..NumJobs

Chats == {"c1", "c2"}

FileNames == {"a.pdf", "b.pdf"}

NoJob == 0

IdleJob == [pc |-> "idle", chat |-> "none", name |-> "none", stamp |-> 0,
            msg |-> 0, sent |-> NoJob, shown |-> "none", pending |-> FALSE]

\* no handler runs jobs side by side
ConcOff ==
    /\ variant = "none"
    /\ jobs = <<>>
    /\ disk = <<>>
    /\ bucket = <<>>
    /\ last_update_time = <<>>
    /\ wall = 0
    /\ blocking = NoJob

\* the program is up and has no job yet
ConcInit ==
    /\ variant \in Variants
    /\ jobs = [j \in Jobs |-> IdleJob]
    /\ disk = <<>>
    /\ bucket = <<>>
    /\ last_update_time = <<>>
    /\ wall = WallStart
    /\ blocking = NoJob

\* the job is between its status message and the end of its cleanup
Active(j) == jobs[j].pc \in {"started", "downloaded", "uploading", "uploaded", "except",
                           "final"}

\* file_handler 595-597: ./downloads/{int(time.time())}_{file_name}
\* handle_file_upload 56-59: temp_{uuid4()[:8]}_{file_name}
\* upload_handler 107: downloads/{uuid4()}
FilePath(j) ==
    CASE variant = "file_handler" -> <<jobs[j].stamp, jobs[j].name>>
      [] variant = "handle_file_upload" -> <<"temp", j, jobs[j].name>>
      [] OTHER -> <<"uuid4", j>>

\* file_handler 596, 611: safe_filename
\* handle_file_upload 73: {user_id}/{file_id}_{file_name}
\* upload_handler 110: {chat.id}/{uuid4().hex}/{file_name}
ObjectKey(j) ==
    CASE variant = "file_handler" -> <<jobs[j].stamp, jobs[j].name>>
      [] variant = "handle_file_upload" -> <<"user", j, jobs[j].name>>
      [] OTHER -> <<jobs[j].chat, j, jobs[j].name>>

\* progress_callback 233, utils.progress_callback 30: the table is keyed by
\* message.id alone
TableKey(j) == jobs[j].msg

\* upload_to_wasabi 306-314 hands the upload to run_in_executor;
\* WasabiClient.upload_file 25 and upload_handler 130-136 call boto3 in the
\* coroutine itself
Bridged == variant = "file_handler"

Put(f, k, v) == [x \in DOMAIN f \cup {k} |-> IF x = k THEN v ELSE f[x]]

Drop(f, k) == [x \in DOMAIN f \ {k} |-> f[x]]

\* the handler up to its first download step: the status message is sent
\* (592 / 112 / 25) and the local path is made from the clock and the name
JobStart(j) ==
    /\ blocking = NoJob
    /\ jobs[j].pc = "idle"
    /\ \E c \in Chats, n \in FileNames, m \in 1..MaxMsgId :
         \* a chat never gives one id to two messages
         /\ \A k \in Jobs : jobs[k].pc # "idle" => <<jobs[k].chat, jobs[k].msg>> # <<c, m>>
         /\ jobs' = [jobs EXCEPT ![j] = [pc |-> "started", chat |-> c, name |-> n,
                                         stamp |-> wall, msg |-> m, sent |-> NoJob,
                                         shown |-> "preparing", pending |-> FALSE]]
    /\ UNCHANGED <<variant, disk, bucket, last_update_time, wall, blocking>>
    /\ UNCHANGED <<jobVars, progVars, rateVars, botVars, dbVars, userVars>>

\* a call of the download's progress callback: progress_callback 236-239,
\* utils.progress_callback 28-32; upload_progress keeps no table
JobProgress(j) ==
    /\ blocking = NoJob
    /\ jobs[j].pc = "started"
    /\ variant # "handle_file_upload"
    /\ \E complete \in BOOLEAN :
         LET id == TableKey(j)
             recent == IF variant = "file_handler"
                         THEN /\ id \in DOMAIN last_update_time
                              /\ wall - last_update_time[id].at < 2
                              /\ ~complete
                         ELSE /\ id \in DOMAIN last_update_time
                              /\ wall - last_update_time[id].at < 2
         IN last_update_time' =
              IF recent THEN last_update_time
              ELSE Put(last_update_time, id, [at |-> wall, by |-> j])
    /\ UNCHANGED <<variant, jobs, disk, bucket, wall, blocking>>
    /\ UNCHANGED <<jobVars, progVars, rateVars, botVars, dbVars, userVars>>

\* download_media returns: the file is at the job's path (602-607 / 62-67 /
\* 118-123)
JobDownload(j) ==
    /\ blocking = NoJob
    /\ jobs[j].pc = "started"
    /\ disk' = Put(disk, FilePath(j), j)
    /\ jobs' = [jobs EXCEPT ![j].pc = "downloaded"]
    /\ UNCHANGED <<variant, bucket, last_update_time, wall, blocking>>
    /\ UNCHANGED <<jobVars, progVars, rateVars, botVars, dbVars, userVars>>

\* the upload opens the local file and starts sending it; a missing file
\* raises into the handler's except clause
JobUploadStart(j) ==
    /\ blocking = NoJob
    /\ jobs[j].pc = "downloaded"
    /\ IF FilePath(j) \in DOMAIN disk
         THEN /\ jobs' = [jobs EXCEPT ![j].pc = "uploading",
                                      ![j].sent = disk[FilePath(j)]]
              /\ blocking' = IF Bridged THEN NoJob ELSE j
         ELSE /\ jobs' = [jobs EXCEPT ![j].pc = "except"]
              /\ blocking' = blocking
    /\ UNCHANGED <<variant, disk, bucket, last_update_time, wall>>
    /\ UNCHANGED <<jobVars, progVars, rateVars, botVars, dbVars, userVars>>

\* the upload call returns: the object is stored under the job's key
JobUploadEnd(j) ==
    /\ blocking \in {NoJob, j}
    /\ jobs[j].pc = "uploading"
    /\ bucket' = Put(bucket, ObjectKey(j), jobs[j].sent)
    /\ jobs' = [jobs EXCEPT ![j].pc = "uploaded"]
    /\ blocking' = NoJob
    /\ UNCHANGED <<variant, disk, last_update_time, wall>>
    /\ UNCHANGED <<jobVars, progVars, rateVars, botVars, dbVars, userVars>>

\* progress_callback 237: the call is dropped
Recent(j, complete) ==
    /\ TableKey(j) \in DOMAIN last_update_time
    /\ wall - last_update_time[TableKey(j)].at < 2
    /\ ~complete

\* progress_callback 237-239: the table after the call
Stamped(j, complete) ==
    IF Recent(j, complete) THEN last_update_time
    ELSE Put(last_update_time, TableKey(j), [at |-> wall, by |-> j])

\* upload_to_wasabi 291-302: the upload thread calls ProgressTracker, which
\* hands progress_callback to the loop with run_coroutine_threadsafe and
\* keeps no reference to the future.  The coroutine runs to its edit (256)
\* before the handler is resumed; the edit itself is then under way.
JobUploadProgress(j) ==
    /\ variant = "file_handler"
    /\ jobs[j].pc = "uploading"
    /\ \E complete \in BOOLEAN :
         /\ last_update_time' = Stamped(j, complete)
         /\ jobs' = [jobs EXCEPT ![j].pending = @ \/ ~Recent(j, complete)]
    /\ UNCHANGED <<variant, disk, bucket, wall, blocking>>
    /\ UNCHANGED <<jobVars, progVars, rateVars, botVars, dbVars, userVars>>

\* progress_callback 256: the edit of a scheduled progress update reaches
\* the status message
JobEditApplied(j) ==
    /\ jobs[j].pending
    /\ jobs' = [jobs EXCEPT ![j].pending = FALSE, ![j].shown = "progress"]
    /\ UNCHANGED <<variant, disk, bucket, last_update_time, wall, blocking>>
    /\ UNCHANGED <<jobVars, progVars, rateVars, botVars, dbVars, userVars>>

\* the handler writes its last text: file_handler 612-644 or 648,
\* upload_handler 143-152 or 156, handle_file_upload 115-118 or 121
JobFinalEdit(j) ==
    /\ blocking = NoJob
    /\ jobs[j].pc \in {"uploaded", "except"}
    /\ jobs' = [jobs EXCEPT ![j].pc = "final", ![j].shown = "final"]
    /\ UNCHANGED <<variant, disk, bucket, last_update_time, wall, blocking>>
    /\ UNCHANGED <<jobVars, progVars, rateVars, botVars, dbVars, userVars>>

\* file_handler 649-655: remove the file, then delete the table entry;
\* upload_handler 139 and 157-158: remove the file;
\* handle_file_upload 79-80 and 96-98: remove the file, and nothing after an
\* exception (119-121).  os.remove may raise, and then nothing after it is
\* done.
JobCleanup(j) ==
    /\ blocking = NoJob
    /\ jobs[j].pc = "final"
    /\ \E removed \in BOOLEAN :
         /\ removed \/ FilePath(j) \in DOMAIN disk
         /\ disk' = IF removed THEN Drop(disk, FilePath(j)) ELSE disk
         /\ last_update_time' = IF variant = "file_handler" /\ removed
                                  THEN Drop(last_update_time, TableKey(j))
                                  ELSE last_update_time
    /\ jobs' = [jobs EXCEPT ![j].pc = "done"]
    /\ UNCHANGED <<variant, bucket, wall, blocking>>
    /\ UNCHANGED <<jobVars, progVars, rateVars, botVars, dbVars, userVars>>

\* a second passes
WallTick ==
    /\ wall < WallStart + MaxWall
    /\ wall' = wall + 1
    /\ UNCHANGED <<variant, jobs, disk, bucket, last_update_time, blocking>>
    /\ UNCHANGED <<jobVars, progVars, rateVars, botVars, dbVars, userVars>>

----------------------------------------------------------------------------
(* bot.py: FileSharingBot, with Storage (storage.py) and WasabiStorage      *)
(* (wasabi_storage.py).  An action is one update handled from its first to  *)
(* its last line.  Of Storage the file records and the two global counters  *)
(* are followed; the calls to Telegram are taken to succeed.                *)

\* config.ADMIN_IDS
ADMIN_IDS == {"admin"}

BotUsers == {"u1", "admin"}

\* the files sent to the bot: Telegram's file_id, file_name and file_size
BotFiles == {[file_id |-> "f1", name |-> "a.pdf", file_size |-> 1],
             [file_id |-> "f2", name |-> "b.pdf", file_size |-> 2]}

BotFileIds == {f.file_id : f \in BotFiles}

\* updates followed
MaxBotSteps == 4

NoPending == [file_id |-> "none"]

NoBotCall == [op |-> "none", user |-> "none", file_id |-> "none", name |-> "none",
              reply |-> "none", sink |-> "none", added |-> FALSE,
              authorised |-> FALSE]

\* no bot of bot.py is running
BotOff ==
    /\ client_up = FALSE
    /\ sink = {}
    /\ files = <<>>
    /\ total_files = 0
    /\ total_size = 0
    /\ temp_data = <<>>
    /\ bcall = NoBotCall
    /\ bsteps = 0

\* bot.py 27-45, storage.py 33-54: empty storage, no pending caption; the
\* client is there or not (wasabi_storage.py 19-39)
BotInit ==
    /\ client_up \in BOOLEAN
    /\ sink = {}
    /\ files = <<>>
    /\ total_files = 0
    /\ total_size = 0
    /\ temp_data = [u \in BotUsers |-> NoPending]
    /\ bcall = NoBotCall
    /\ bsteps = 0

\* WasabiStorage.upload_file 139-166, for the outcome up of the boto3 call:
\* what happened at the sink
SinkUpload(up) ==
    IF ~client_up THEN "unavailable" ELSE IF up = "ok" THEN "ok" ELSE "failed"

\* WasabiStorage.upload_file 143, 158-161, 166: the URL returned, https://...
\* for a stored object and file://{file_path} otherwise
UploadUrl(up) == IF SinkUpload(up) = "ok" THEN "https" ELSE "file"

\* bot.py 296: not wasabi_url
NotUrl(wasabi_url) == wasabi_url = ""

\* WasabiStorage.delete_file 185-200, for the outcome del of the boto3 call:
\* what happened at the sink
SinkDelete(del) ==
    IF ~client_up THEN "unavailable" ELSE IF del = "ok" THEN "ok" ELSE "failed"

\* Storage.add_file 152-202 has no return statement
AddFileResult == "None"

\* bot.py 350: not success
NotSuccess(success) == success \in {"None", "False"}

\* Storage.add_file 159: self.data["files"][file_id] = file_data
FilesAfterAdd(fd) ==
    [x \in DOMAIN files \cup {fd.file_id} |-> IF x = fd.file_id THEN fd ELSE files[x]]

\* Storage.delete_file 236: del self.data["files"][file_id]
FilesAfterDelete(id) == [x \in DOMAIN files \ {id} |-> files[x]]

Max(a, b) == IF a >= b THEN a ELSE b

\* finalize_file_upload 343-390 with Storage.add_file 152-202: the record is
\* put under its file_id, total_files is the number of records (181) and
\* total_size grows by the file's size (183); the reply is chosen by the
\* value add_file returned (349-352)
Finalize(op, u, fd, sk) ==
    /\ files' = FilesAfterAdd(fd)
    /\ total_files' = Cardinality(DOMAIN files')
    /\ total_size' = total_size + fd.file_size
    /\ bcall' = [op |-> op, user |-> u, file_id |-> fd.file_id, name |-> fd.name,
                 reply |-> IF NotSuccess(AddFileResult)
                             THEN "ErrorStoringFileData"
                             ELSE "FileUploadedSuccessfully",
                 sink |-> sk, added |-> TRUE, authorised |-> TRUE]

\* handle_file_upload 253-341
BotHandleFileUpload ==
    /\ bsteps < MaxBotSteps
    /\ bsteps' = bsteps + 1
    /\ \E u \in BotUsers, f \in BotFiles, captioned \in BOOLEAN,
          dl \in {"ok", "raise"}, up \in {"ok", "raise"} :
         IF dl = "raise"
           THEN \* 287-289 raised: 335-337
                /\ bcall' = [op |-> "handle_file_upload", user |-> u,
                             file_id |-> f.file_id, name |-> f.name,
                             reply |-> "ErrorProcessingFile", sink |-> "none",
                             added |-> FALSE, authorised |-> TRUE]
                /\ UNCHANGED <<sink, files, total_files, total_size, temp_data>>
           ELSE LET wurl == UploadUrl(up)
                    fd == [file_id |-> f.file_id, wasabi_url |-> wurl, name |-> f.name,
                           user_id |-> u, file_size |-> f.file_size,
                           caption |-> IF captioned THEN "caption" ELSE ""]
                IN /\ sink' = IF SinkUpload(up) = "ok" THEN sink \cup {f.name} ELSE sink
                   /\ IF NotUrl(wurl)
                        THEN \* 296-298
                             /\ bcall' = [op |-> "handle_file_upload", user |-> u,
                                          file_id |-> f.file_id, name |-> f.name,
                                          reply |-> "ErrorUploadingToCloud",
                                          sink |-> SinkUpload(up),
                                          added |-> FALSE, authorised |-> TRUE]
                             /\ UNCHANGED <<files, total_files, total_size, temp_data>>
                        ELSE IF ~captioned
                               THEN \* 322-331
                                    /\ temp_data' = [temp_data EXCEPT ![u] = fd]
                                    /\ bcall' = [op |-> "handle_file_upload", user |-> u,
                                                 file_id |-> f.file_id, name |-> f.name,
                                                 reply |-> "AskCaption",
                                                 sink |-> SinkUpload(up),
                                                 added |-> FALSE, authorised |-> TRUE]
                                    /\ UNCHANGED <<files, total_files, total_size>>
                               ELSE \* 333
                                    /\ Finalize("handle_file_upload", u, fd, SinkUpload(up))
                                    /\ UNCHANGED temp_data
    /\ UNCHANGED client_up
    /\ UNCHANGED <<jobVars, progVars, rateVars, concVars, dbVars, userVars>>

\* handle_text 229-251
BotHandleText ==
    /\ bsteps < MaxBotSteps
    /\ bsteps' = bsteps + 1
    /\ \E u \in BotUsers, text \in {"-", "hello"} :
         IF temp_data[u] # NoPending
           THEN \* 235-245
                /\ Finalize("handle_text", u,
                            [temp_data[u] EXCEPT !.caption =
                               IF text = "-" THEN "Shared via File Bot" ELSE text],
                            "none")
                /\ temp_data' = [temp_data EXCEPT ![u] = NoPending]
           ELSE \* 247
                /\ bcall' = [op |-> "handle_text", user |-> u, file_id |-> "none",
                             name |-> "none", reply |-> "SendMeAFile", sink |-> "none",
                             added |-> FALSE, authorised |-> TRUE]
                /\ UNCHANGED <<files, total_files, total_size, temp_data>>
    /\ UNCHANGED <<client_up, sink>>
    /\ UNCHANGED <<jobVars, progVars, rateVars, concVars, dbVars, userVars>>

\* button_callback 757-773, the confirm_ branch, with WasabiStorage.delete_file
\* 185-200 and Storage.delete_file 228-267
BotConfirmDelete ==
    /\ bsteps < MaxBotSteps
    /\ bsteps' = bsteps + 1
    /\ \E u \in BotUsers, id \in BotFileIds, del \in {"ok", "raise"} :
         IF id \in DOMAIN files /\ (files[id].user_id = u \/ u \in ADMIN_IDS)
           THEN \* 762-769: the result of wasabi.delete_file is not looked at
                /\ sink' = IF SinkDelete(del) = "ok" THEN sink \ {files[id].name} ELSE sink
                /\ files' = FilesAfterDelete(id)
                /\ total_files' = Cardinality(DOMAIN files')
                /\ total_size' = Max(0, total_size - files[id].file_size)
                /\ bcall' = [op |-> "confirm", user |-> u, file_id |-> id,
                             name |-> files[id].name, reply |-> "DeletedSuccessfully",
                             sink |-> SinkDelete(del), added |-> FALSE,
                             authorised |-> TRUE]
           ELSE \* 773
                /\ bcall' = [op |-> "confirm", user |-> u, file_id |-> id,
                             name |-> "none", reply |-> "NotFoundOrNoPermission",
                             sink |-> "none", added |-> FALSE, authorised |-> FALSE]
                /\ UNCHANGED <<sink, files, total_files, total_size>>
    /\ UNCHANGED <<client_up, temp_data>>
    /\ UNCHANGED <<jobVars, progVars, rateVars, concVars, dbVars, userVars>>

----------------------------------------------------------------------------
(* database.py: Database, as FileHandler.handle_file_upload uses it          *)
(* (src/file_handlers.py 55-117).  The handler is taken up after             *)
(* wasabi_client.upload_file has reported success.                          *)

DbUsers == {"u1", "u2"}

DbNames == {"a.pdf", "b.pdf"}

\* file_handlers.py 56: str(uuid.uuid4())[:8], eight hexadecimal digits
DbFileIds == {"1a2b3c4d", "5e6f7a8b"}

\* calls followed
MaxDbSteps == 4

NoRow == [file_id |-> "none", file_name |-> "none", wasabi_key |-> <<>>,
          user_id |-> "none"]

NoDbCall == [op |-> "none", row |-> NoRow, existed |-> FALSE, result |-> FALSE,
             old |-> NoRow, got |-> NoRow]

\* no Database is in use
DbOff ==
    /\ db_files = <<>>
    /\ dcall = NoDbCall
    /\ dsteps = 0

\* database.py 12-32: the table files, empty
DbInit ==
    /\ db_files = <<>>
    /\ dcall = NoDbCall
    /\ dsteps = 0

\* Database.get_file 62-86: the row with this file_id, or None
GetFile(table, id) == IF id \in DOMAIN table THEN table[id] ELSE NoRow

\* Database.add_file 34-60: file_id is UNIQUE (line 20), so the INSERT of an
\* existing file_id raises IntegrityError and the method returns False;
\* otherwise the row is inserted and it returns True
AddFile(table, row) ==
    IF row.file_id \in DOMAIN table
      THEN [table |-> table, result |-> FALSE]
      ELSE [table |-> [x \in DOMAIN table \cup {row.file_id} |->
                         IF x = row.file_id THEN row ELSE table[x]],
            result |-> TRUE]

\* handle_file_upload 55-117: a new file_id, the key made from it, the record
\* handed to db.add_file whose result is not looked at (94), and the success
\* message with the file_id (101-117)
DbHandleFileUpload ==
    /\ dsteps < MaxDbSteps
    /\ dsteps' = dsteps + 1
    /\ \E u \in DbUsers, n \in DbNames, id \in DbFileIds :
         LET row == [file_id |-> id, file_name |-> n, wasabi_key |-> <<u, id, n>>,
                     user_id |-> u]
             r == AddFile(db_files, row)
         IN /\ db_files' = r.table
            /\ dcall' = [op |-> "handle_file_upload", row |-> row,
                         existed |-> id \in DOMAIN db_files, result |-> r.result,
                         old |-> GetFile(db_files, id), got |-> NoRow]
    /\ UNCHANGED <<jobVars, progVars, rateVars, concVars, botVars, userVars>>

\* a later look-up of a file_id: db.get_file (file_handlers.py 147)
DbGetFile ==
    /\ dsteps < MaxDbSteps
    /\ dsteps' = dsteps + 1
    /\ \E id \in DbFileIds :
         dcall' = [op |-> "get_file", row |-> [NoRow EXCEPT !.file_id = id],
                   existed |-> id \in DOMAIN db_files, result |-> FALSE,
                   old |-> NoRow, got |-> GetFile(db_files, id)]
    /\ UNCHANGED db_files
    /\ UNCHANGED <<jobVars, progVars, rateVars, concVars, botVars, userVars>>

----------------------------------------------------------------------------
(* UserManager and the admin commands,                                     *)
(* src/deepseek_python_20251003_7b178d.py 46-86, 174-182, 425-465, 658-663 *)

\* line 41: ADMIN_ID = config.ADMIN_ID
ADMIN_ID == 1

\* the users who send commands
People == {ADMIN_ID, 2, 3}

\* the argument of a command that has none, or none that int() accepts
NoArg == 0

\* commands followed
MaxUserSteps == 4

FileAbsent == [kind |-> "absent", users |-> {}]

FileCorrupt == [kind |-> "corrupt", users |-> {}]

Json(users) == [kind |-> "json", users |-> users]

NoUserCall == [cmd |-> "none", sender |-> NoArg, arg |-> NoArg, reply |-> "none",
               before |-> {}]

\* no UserManager is in use
UsersOff ==
    /\ allowed_users = {}
    /\ users_file = FileAbsent
    /\ ucall = NoUserCall
    /\ usteps = 0

\* save_users 65-71: the file holds the list, or the write failed and the
\* file is as it was or cut short; the failure is logged and nothing more
Saved(users, file) == {Json(users), file, FileCorrupt}

\* load_users 51-63 with the file read without error: the list of the file,
\* {ADMIN_ID} for no file (59) and for a file json.load rejects (61-63)
Loaded(file) == IF file.kind = "json" THEN file.users ELSE {ADMIN_ID}

\* line 89 on a first start: no file, so load_users sets {ADMIN_ID} and saves
UsersInit ==
    /\ allowed_users = {ADMIN_ID}
    /\ users_file \in Saved({ADMIN_ID}, FileAbsent)
    /\ ucall = NoUserCall
    /\ usteps = 0

\* the test of line 178 passing for everybody
IsAdminAnyone(sender) == sender = sender

\* is_admin 174-182, line 178: message.from_user.id == ADMIN_ID
IsAdmin(sender) == sender = ADMIN_ID

\* add_user_handler 425-448 with UserManager.add_user 73-75
AddUserHandler ==
    /\ usteps < MaxUserSteps
    /\ usteps' = usteps + 1
    /\ \E sender \in People, arg \in People \cup {NoArg} :
         LET reply == IF ~IsAdmin(sender) THEN "AccessDenied"
                      ELSE IF arg = NoArg THEN "Usage"
                      ELSE IF arg \in allowed_users THEN "AlreadyAuthorized"
                      ELSE "Added"
         IN /\ ucall' = [cmd |-> "adduser", sender |-> sender, arg |-> arg,
                         reply |-> reply, before |-> allowed_users]
            /\ IF reply = "Added"
                 THEN /\ allowed_users' = allowed_users \cup {arg}
                      /\ users_file' \in Saved(allowed_users', users_file)
                 ELSE UNCHANGED <<allowed_users, users_file>>
    /\ UNCHANGED <<jobVars, progVars, rateVars, concVars, botVars, dbVars>>

\* remove_user_handler 450-465 with UserManager.remove_user 77-80
RemoveUserHandler ==
    /\ usteps < MaxUserSteps
    /\ usteps' = usteps + 1
    /\ \E sender \in People, arg \in People \cup {NoArg} :
         LET reply == IF ~IsAdmin(sender) THEN "AccessDenied"
                      ELSE IF arg = NoArg THEN "Usage"
                      ELSE IF arg = ADMIN_ID THEN "CannotRemoveAdmin"
                      ELSE IF arg \in allowed_users THEN "Removed"
                      ELSE "NotFound"
         IN /\ ucall' = [cmd |-> "removeuser", sender |-> sender, arg |-> arg,
                         reply |-> reply, before |-> allowed_users]
            /\ IF reply = "Removed"
                 THEN /\ allowed_users' = allowed_users \ {arg}
                      /\ users_file' \in Saved(allowed_users', users_file)
                 ELSE UNCHANGED <<allowed_users, users_file>>
    /\ UNCHANGED <<jobVars, progVars, rateVars, concVars, botVars, dbVars>>

\* reload_handler 658-663 with UserManager.load_users 51-63: reading the file
\* may raise, which gives {ADMIN_ID} (61-63); no file gives {ADMIN_ID} and a
\* save (59-60)
ReloadHandler ==
    /\ usteps < MaxUserSteps
    /\ usteps' = usteps + 1
    /\ \E sender \in People, readable \in BOOLEAN :
         /\ ucall' = [cmd |-> "reload", sender |-> sender, arg |-> NoArg,
                      reply |-> IF IsAdmin(sender) THEN "Reloaded" ELSE "AccessDenied",
                      before |-> allowed_users]
         /\ IF ~IsAdmin(sender)
              THEN UNCHANGED <<allowed_users, users_file>>
              ELSE IF users_file.kind = "absent"
                     THEN /\ allowed_users' = {ADMIN_ID}
                          /\ users_file' \in Saved({ADMIN_ID}, users_file)
                     ELSE /\ allowed_users' = IF readable THEN Loaded(users_file)
                                              ELSE {ADMIN_ID}
                          /\ users_file' = users_file
    /\ UNCHANGED <<jobVars, progVars, rateVars, concVars, botVars, dbVars>>

----------------------------------------------------------------------------
(* The progress reporters:                                                 *)
(*   progress_callback      src/deepseek_python_20251003_7b178d.py 230-258 *)
(*   progress_callback      src/bot/utils.py 26-52                         *)
(*   BotoProgress.__call__  src/bot/utils.py 65-91                         *)
(*   FileHandler.upload_progress  src/file_handlers.py 123-139             *)
(* One status message is followed; time is counted in whole seconds.       *)

\* no entry in the table yet
Absent == -1

\* the clock when the transfer starts
StartTime == 5

\* how many seconds the clock is followed
MaxSeconds == 4

\* byte counts reported run over 0..MaxBytes
MaxBytes == 2

Reporters == {"progress_callback", "utils.progress_callback", "BotoProgress",
              "upload_progress"}

NoCall == [current |-> 0, total |-> 0, at |-> 0, prev |-> Absent, result |-> "none"]

\* the reporters are not running
ProgressOff ==
    /\ reporter = "none"
    /\ now = 0
    /\ last = Absent
    /\ ptotal = 0
    /\ seen = 0
    /\ prevEmit = Absent
    /\ call = NoCall

\* last_update_time = {} / progress_tracker = {} / self._last_update_time = 0
ProgressInit ==
    /\ reporter \in Reporters
    /\ now = StartTime
    /\ last = IF reporter = "BotoProgress" THEN 0 ELSE Absent
    /\ ptotal \in 0..MaxBytes
    /\ seen = 0
    /\ prevEmit = Absent
    /\ call = NoCall

\* 7b178d line 237:
\* (now - last_update_time.get(message_id, 0)) < 2 and current != total
Throttled(current, total, lastv, t) ==
    /\ (t - (IF lastv = Absent THEN 0 ELSE lastv)) < 2
    /\ current # total

\* utils.py line 30:
\* message.id in progress_tracker and (now - progress_tracker[message.id]) < 2
UtilsThrottled(current, total, lastv, t) ==
    /\ lastv # Absent
    /\ (t - lastv) < 2

\* utils.py line 72: now - self._last_update_time < 2
BotoThrottled(current, total, lastv, t) == (t - lastv) < 2

\* what the latest call did
Did(current, total, result) ==
    call' = [current |-> current, total |-> total, at |-> now, prev |-> prevEmit,
             result |-> result]

\* The body shared by the three throttled reporters: return when throttled,
\* else write the entry, compute the percentage (a division by total) and
\* edit the message inside try/except.
Report(current, total, throttled) ==
    IF throttled
      THEN /\ Did(current, total, "skipped")
           /\ UNCHANGED <<last, prevEmit>>
      ELSE /\ last' = now
           /\ IF total = 0
                THEN /\ Did(current, total, "ZeroDivisionError")
                     /\ UNCHANGED prevEmit
                ELSE /\ prevEmit' = now
                     /\ \E edited \in BOOLEAN :
                          Did(current, total, IF edited THEN "emitted" ELSE "edit_failed")

\* progress_callback of 7b178d, lines 230-258
ProgressCallback ==
    /\ reporter = "progress_callback"
    /\ \E current \in 0..MaxBytes :
         Report(current, ptotal, Throttled(current, ptotal, last, now))
    /\ UNCHANGED <<reporter, now, ptotal, seen>>
    /\ UNCHANGED <<jobVars, rateVars, concVars, botVars, dbVars, userVars>>

\* progress_callback of bot/utils.py, lines 26-52
UtilsProgressCallback ==
    /\ reporter = "utils.progress_callback"
    /\ \E current \in 0..MaxBytes :
         Report(current, ptotal, UtilsThrottled(current, ptotal, last, now))
    /\ UNCHANGED <<reporter, now, ptotal, seen>>
    /\ UNCHANGED <<jobVars, rateVars, concVars, botVars, dbVars, userVars>>

\* BotoProgress.__call__ of bot/utils.py, lines 65-91
BotoProgressCall ==
    /\ reporter = "BotoProgress"
    /\ \E bytes_amount \in 0..MaxBytes :
         /\ seen + bytes_amount <= MaxBytes
         /\ seen' = seen + bytes_amount
         /\ Report(seen + bytes_amount, ptotal,
                   BotoThrottled(seen + bytes_amount, ptotal, last, now))
    /\ UNCHANGED <<reporter, now, ptotal>>
    /\ UNCHANGED <<jobVars, rateVars, concVars, botVars, dbVars, userVars>>

\* FileHandler.upload_progress, file_handlers.py lines 123-139: the whole
\* body is inside try/except, so the division by zero is logged
UploadProgress ==
    /\ reporter = "upload_progress"
    /\ \E current \in 0..MaxBytes :
         IF ptotal = 0
           THEN /\ Did(current, ptotal, "error_logged")
                /\ UNCHANGED prevEmit
           ELSE /\ prevEmit' = now
                /\ \E edited \in BOOLEAN :
                     Did(current, ptotal, IF edited THEN "emitted" ELSE "edit_failed")
    /\ UNCHANGED <<reporter, now, last, ptotal, seen>>
    /\ UNCHANGED <<jobVars, rateVars, concVars, botVars, dbVars, userVars>>

\* a second passes
Tick ==
    /\ reporter \in Reporters
    /\ now < StartTime + MaxSeconds
    /\ now' = now + 1
    /\ UNCHANGED <<reporter, last, ptotal, seen, prevEmit, call>>
    /\ UNCHANGED <<jobVars, rateVars, concVars, botVars, dbVars, userVars>>

\* the job handlers are not running
JobOff ==
    /\ handler = "none"
    /\ pc = "off"
    /\ file_size = <<0, 0>>
    /\ fileExists = FALSE
    /\ attempt = 0
    /\ delay = 0
    /\ upl = "pending"
    /\ url = "unset"
    /\ status = "none"
    /\ exc = <<"none", "none">>
    /\ escaped = <<"none", "none">>
    /\ log = <<>>

InitProgress == ProgressInit /\ JobOff /\ RateOff /\ ConcOff /\ BotOff /\ DbOff /\ UsersOff

NextProgress ==
    \/ ProgressCallback
    \/ UtilsProgressCallback
    \/ BotoProgressCall
    \/ UploadProgress
    \/ Tick

SpecProgress == InitProgress /\ [][NextProgress]_vars

InitJobs == ConcInit /\ JobOff /\ ProgressOff /\ RateOff /\ BotOff /\ DbOff /\ UsersOff

NextJobs ==
    \/ \E j \in Jobs : JobStart(j)
    \/ \E j \in Jobs : JobProgress(j)
    \/ \E j \in Jobs : JobDownload(j)
    \/ \E j \in Jobs : JobUploadStart(j)
    \/ \E j \in Jobs : JobUploadProgress(j)
    \/ \E j \in Jobs : JobUploadEnd(j)
    \/ \E j \in Jobs : JobEditApplied(j)
    \/ \E j \in Jobs : JobFinalEdit(j)
    \/ \E j \in Jobs : JobCleanup(j)
    \/ WallTick

SpecJobs == InitJobs /\ [][NextJobs]_vars

InitBot == BotInit /\ JobOff /\ ProgressOff /\ RateOff /\ ConcOff /\ DbOff /\ UsersOff

NextBot ==
    \/ BotHandleFileUpload
    \/ BotHandleText
    \/ BotConfirmDelete

SpecBot == InitBot /\ [][NextBot]_vars

InitDb == DbInit /\ JobOff /\ ProgressOff /\ RateOff /\ ConcOff /\ BotOff /\ UsersOff

NextDb ==
    \/ DbHandleFileUpload
    \/ DbGetFile

SpecDb == InitDb /\ [][NextDb]_vars

InitUsers == UsersInit /\ JobOff /\ ProgressOff /\ RateOff /\ ConcOff /\ BotOff /\ DbOff

NextUsers ==
    \/ AddUserHandler
    \/ RemoveUserHandler
    \/ ReloadHandler

SpecUsers == InitUsers /\ [][NextUsers]_vars

InitRate == RateInit /\ JobOff /\ ProgressOff /\ ConcOff /\ BotOff /\ DbOff /\ UsersOff

NextRate ==
    \/ IsLimited
    \/ GetRemainingUploads
    \/ RateTick

SpecRate == InitRate /\ [][NextRate]_vars

----------------------------------------------------------------------------
Init ==
    /\ handler \in Handlers
    /\ pc = "start"
    /\ file_size \in Sizes
    /\ fileExists = FALSE
    /\ attempt = 0
    /\ delay = 0
    /\ upl = "pending"
    /\ url = "unset"
    /\ status = "none"
    /\ exc = NoExc
    /\ escaped = NoExc
    /\ log = <<>>
    /\ ProgressOff
    /\ RateOff
    /\ ConcOff
    /\ BotOff
    /\ DbOff
    /\ UsersOff

Called(op, arg) == log' = Append(log, <<op, arg>>)

\* exception e reaches the except clause of file_handler
Caught(e) == /\ exc' = e
             /\ pc' = "except"

----------------------------------------------------------------------------
(* file_handler, src/deepseek_python_20251003_7b178d.py *)

\* lines 545-598: the guards, the size check and the first status message
FileHandlerEntry ==
    /\ handler = "file_handler"
    /\ pc = "start"
    /\ \E ready \in BOOLEAN, limited \in BOOLEAN, replied \in BOOLEAN :
         LET text == IF ~ready THEN "NotInitialized"
                     ELSE IF limited THEN "RateLimitExceeded"
                     ELSE IF SizeExceeds(file_size) THEN "LargerThan4GB"
                     ELSE "Preparing"
         IN /\ Called("reply_text", text)
            /\ IF replied /\ text = "Preparing"
                 THEN /\ status' = "Preparing"
                      /\ pc' = "download"
                      /\ escaped' = escaped
                 ELSE /\ status' = status
                      /\ pc' = "done"
                      /\ escaped' = IF replied THEN escaped ELSE <<"reply_text", text>>
    /\ UNCHANGED <<handler, file_size, fileExists, attempt, delay, upl, url, exc>>
    /\ UNCHANGED notJobVars

\* lines 602-607: client.download_media
DownloadMedia ==
    /\ handler = "file_handler"
    /\ pc = "download"
    /\ \/ /\ Called("download_media", "ok")
          /\ fileExists' = TRUE
          /\ pc' = "edit_downloaded"
          /\ exc' = exc
       \/ /\ Called("download_media", "raise")
          /\ fileExists' \in BOOLEAN
          /\ Caught(<<"download_media", "raise">>)
       \/ \* progress=progress_callback with total == 0: the division of
          \* line 241 raises inside the download
          /\ file_size = <<0, 0>>
          /\ Called("download_media", "ZeroDivisionError")
          /\ fileExists' \in BOOLEAN
          /\ Caught(<<"download_media", "ZeroDivisionError">>)
    /\ UNCHANGED <<handler, file_size, attempt, delay, upl, url, status, escaped>>
    /\ UNCHANGED notJobVars

\* status_message.edit_text(text) between two steps of the pipeline
EditBetween(from, text, to) ==
    /\ handler = "file_handler"
    /\ pc = from
    /\ \/ /\ Called("edit_text", text)
          /\ status' = text
          /\ pc' = to
          /\ exc' = exc
       \/ /\ Called("edit_text_raised", text)
          /\ status' = status
          /\ Caught(<<"edit_text", text>>)

\* line 608
EditDownloadComplete ==
    /\ EditBetween("edit_downloaded", "DownloadComplete", "upload")
    /\ UNCHANGED <<handler, file_size, fileExists, attempt, delay, upl, url, escaped>>
    /\ UNCHANGED notJobVars

\* the delay of line 325 with the exponent off by one
DelayShifted(a) == base_delay * (2 ^ (a + 1))

\* line 325: delay = base_delay * (2 ** attempt)
Delay(a) == base_delay * (2 ^ a)

\* the last-attempt test of line 321 off by one: attempt == max_retries
IsLastAttemptOffByOne(a) == a = max_retries

\* line 321: attempt == max_retries - 1
IsLastAttempt(a) == a = max_retries - 1

\* lines 282-322: one iteration of the loop up to the result of upload_file
UploadAttempt ==
    /\ handler = "file_handler"
    /\ pc = "upload"
    /\ \E o \in UploadOutcomes :
         /\ Called("upload_file", o)
         /\ IF o = "ok"
              THEN /\ upl' = "True"
                   /\ pc' = "edit_uploaded"
                   /\ UNCHANGED <<exc, delay>>
            ELSE IF o \in ClientErrorCodes
              THEN IF IsLastAttempt(attempt)
                     THEN /\ upl' = "raised"
                          /\ Caught(<<"upload_file", o>>)
                          /\ delay' = delay
                     ELSE /\ delay' = Delay(attempt)
                          /\ pc' = "retry_notice"
                          /\ UNCHANGED <<upl, exc>>
            ELSE /\ upl' = "raised"
                 /\ Caught(<<"upload_file", o>>)
                 /\ delay' = delay
    /\ UNCHANGED <<handler, file_size, fileExists, attempt, url, status, escaped>>
    /\ UNCHANGED notJobVars

\* lines 326-329: the retry notice, awaited inside the except clause
RetryNotice ==
    /\ handler = "file_handler"
    /\ pc = "retry_notice"
    /\ \/ /\ Called("edit_text", "RetryNotice")
          /\ status' = "RetryNotice"
          /\ pc' = "sleep"
          /\ UNCHANGED <<exc, upl>>
       \/ /\ Called("edit_text_raised", "RetryNotice")
          /\ status' = status
          /\ upl' = "raised"
          /\ Caught(<<"edit_text", "RetryNotice">>)
    /\ UNCHANGED <<handler, file_size, fileExists, attempt, delay, url, escaped>>
    /\ UNCHANGED notJobVars

\* lines 330, 282, 332: the backoff sleep, then the next iteration or the
\* end of the loop
BackoffSleep ==
    /\ handler = "file_handler"
    /\ pc = "sleep"
    /\ Called("sleep", delay)
    /\ attempt' = attempt + 1
    /\ IF attempt + 1 < max_retries
         THEN /\ pc' = "upload"
              /\ upl' = upl
         ELSE /\ pc' = "edit_uploaded"
              /\ upl' = "False"
    /\ UNCHANGED <<handler, file_size, fileExists, delay, url, status, exc, escaped>>
    /\ UNCHANGED notJobVars

\* line 612
EditUploadComplete ==
    /\ EditBetween("edit_uploaded", "UploadComplete", "presign")
    /\ UNCHANGED <<handler, file_size, fileExists, attempt, delay, upl, url, escaped>>
    /\ UNCHANGED notJobVars

\* lines 334-344, called at line 615
GeneratePresignedUrl ==
    /\ handler = "file_handler"
    /\ pc = "presign"
    /\ \E o \in PresignOutcomes :
         /\ Called("generate_presigned_url", o)
         /\ IF o = "url"
              THEN /\ url' = "url"
                   /\ pc' = "edit_final"
                   /\ exc' = exc
            ELSE IF o \in ClientErrorCodes
              THEN /\ url' = "None"
                   /\ pc' = "edit_final"
                   /\ exc' = exc
            ELSE /\ url' = url
                 /\ Caught(<<"generate_presigned_url", o>>)
    /\ UNCHANGED <<handler, file_size, fileExists, attempt, delay, upl, status, escaped>>
    /\ UNCHANGED notJobVars

\* lines 617-644: the final message, with or without the link
EditFinal ==
    /\ EditBetween("edit_final",
                   IF url = "url" THEN "UploadedSuccessfully" ELSE "UploadedNoLink",
                   "finally")
    /\ UNCHANGED <<handler, file_size, fileExists, attempt, delay, upl, url, escaped>>
    /\ UNCHANGED notJobVars

\* lines 646-648: except Exception
ExceptHandler ==
    /\ handler = "file_handler"
    /\ pc = "except"
    /\ \/ /\ Called("edit_text", "UploadFailed")
          /\ status' = "UploadFailed"
          /\ escaped' = escaped
       \/ /\ Called("edit_text_raised", "UploadFailed")
          /\ status' = status
          /\ escaped' = <<"edit_text", "UploadFailed">>
    /\ pc' = "finally"
    /\ UNCHANGED <<handler, file_size, fileExists, attempt, delay, upl, url, exc>>
    /\ UNCHANGED notJobVars

\* a cleanup that runs on the success path only
CleanupOnSuccessOnly ==
    /\ handler = "file_handler"
    /\ pc = "finally"
    /\ IF fileExists /\ exc = NoExc
         THEN /\ Called("os.remove", "ok")
              /\ fileExists' = FALSE
         ELSE UNCHANGED <<log, fileExists>>
    /\ pc' = "done"
    /\ UNCHANGED <<handler, file_size, attempt, delay, upl, url, status, exc, escaped>>
    /\ UNCHANGED notJobVars

\* lines 649-655: finally
FinallyCleanup ==
    /\ handler = "file_handler"
    /\ pc = "finally"
    /\ IF fileExists
         THEN \/ /\ Called("os.remove", "ok")
                 /\ fileExists' = FALSE
                 /\ escaped' = escaped
              \/ /\ Called("os.remove", "raise")
                 /\ fileExists' = fileExists
                 /\ escaped' = <<"os.remove", "raise">>
         ELSE UNCHANGED <<log, fileExists, escaped>>
    /\ pc' = "done"
    /\ UNCHANGED <<handler, file_size, attempt, delay, upl, url, status, exc>>
    /\ UNCHANGED notJobVars

----------------------------------------------------------------------------
(* FileHandler.handle_file_upload, src/file_handlers.py *)

\* exception e reaches the except clause of handle_file_upload
HfuCaught(e) == /\ exc' = e
                /\ pc' = "hfu_except"

\* lines 19-59: the first progress message, then the size check
HfuEntry ==
    /\ handler = "handle_file_upload"
    /\ pc = "start"
    /\ \/ /\ Called("reply", "StartingUpload")
          /\ status' = "StartingUpload"
          /\ pc' = IF SizeExceeds(file_size) THEN "hfu_too_large" ELSE "hfu_download"
          /\ exc' = exc
       \/ /\ Called("reply_raised", "StartingUpload")
          /\ status' = status
          /\ HfuCaught(<<"reply", "StartingUpload">>)
    /\ UNCHANGED <<handler, file_size, fileExists, attempt, delay, upl, url, escaped>>
    /\ UNCHANGED notJobVars

\* progress_msg.edit_text(text), then on to position `to`
HfuEdit(from, text, to) ==
    /\ handler = "handle_file_upload"
    /\ pc = from
    /\ \/ /\ Called("edit_text", text)
          /\ status' = text
          /\ pc' = to
          /\ exc' = exc
       \/ /\ Called("edit_text_raised", text)
          /\ status' = status
          /\ HfuCaught(<<"edit_text", text>>)

\* lines 48-53: the rejection of a file over the ceiling
HfuEditTooLarge ==
    /\ HfuEdit("hfu_too_large", "FileTooLarge", "done")
    /\ UNCHANGED <<handler, file_size, fileExists, attempt, delay, upl, url, escaped>>
    /\ UNCHANGED notJobVars

\* lines 62-67: client.download_media
HfuDownload ==
    /\ handler = "handle_file_upload"
    /\ pc = "hfu_download"
    /\ \/ /\ Called("download_media", "ok")
          /\ fileExists' = TRUE
          /\ pc' = "hfu_edit_uploading"
          /\ exc' = exc
       \/ /\ Called("download_media", "raise")
          /\ fileExists' \in BOOLEAN
          /\ HfuCaught(<<"download_media", "raise">>)
    /\ UNCHANGED <<handler, file_size, attempt, delay, upl, url, status, escaped>>
    /\ UNCHANGED notJobVars

\* line 70
HfuEditUploading ==
    /\ HfuEdit("hfu_edit_uploading", "UploadingToWasabi", "hfu_upload")
    /\ UNCHANGED <<handler, file_size, fileExists, attempt, delay, upl, url, escaped>>
    /\ UNCHANGED notJobVars

\* WasabiClient.upload_file, src/wasabi_client.py lines 19-42, for upload
\* outcome u and URL outcome p: a ClientError gives the failure result, any
\* other exception leaves the method, and building the success result reads
\* os.path.getsize in a module that never imports os.
WasabiUploadFile(u, p) ==
    IF u \in ClientErrorCodes THEN <<"failure", u>>
    ELSE IF u # "ok" THEN <<"raise", u>>
    ELSE IF p \in ClientErrorCodes THEN <<"failure", p>>
    ELSE IF p # "url" THEN <<"raise", p>>
    ELSE <<"raise", "NameError">>

\* line 74: upload_result = await wasabi_client.upload_file(temp_path, wasabi_key)
HfuUpload ==
    /\ handler = "handle_file_upload"
    /\ pc = "hfu_upload"
    /\ \E u \in UploadOutcomes, p \in PresignOutcomes :
         LET r == WasabiUploadFile(u, p)
         IN /\ log' = IF u = "ok"
                        THEN log \o << <<"upload_file", u>>, <<"generate_presigned_url", p>> >>
                        ELSE Append(log, <<"upload_file", u>>)
            /\ url' = IF u = "ok" /\ p = "url" THEN "url" ELSE url
            /\ IF r[1] = "failure"
                 THEN /\ upl' = "False"
                      /\ pc' = "hfu_upload_failed"
                      /\ exc' = exc
                 ELSE /\ upl' = "raised"
                      /\ HfuCaught(<<"upload_file", r[2]>>)
    /\ UNCHANGED <<handler, file_size, fileExists, attempt, delay, status, escaped>>
    /\ UNCHANGED notJobVars

\* lines 76-81: report the failed upload, remove the temp file, return
HfuUploadFailed ==
    /\ handler = "handle_file_upload"
    /\ pc = "hfu_upload_failed"
    /\ \/ /\ status' = "WasabiUploadFailed"
          /\ IF fileExists
               THEN \/ /\ log' = log \o << <<"edit_text", "WasabiUploadFailed">>,
                                           <<"os.remove", "ok">> >>
                       /\ fileExists' = FALSE
                       /\ pc' = "done"
                       /\ exc' = exc
                    \/ /\ log' = log \o << <<"edit_text", "WasabiUploadFailed">>,
                                           <<"os.remove", "raise">> >>
                       /\ fileExists' = fileExists
                       /\ HfuCaught(<<"os.remove", "raise">>)
               ELSE /\ Called("edit_text", "WasabiUploadFailed")
                    /\ pc' = "done"
                    /\ UNCHANGED <<fileExists, exc>>
       \/ /\ Called("edit_text_raised", "WasabiUploadFailed")
          /\ HfuCaught(<<"edit_text", "WasabiUploadFailed">>)
          /\ UNCHANGED <<status, fileExists>>
    /\ UNCHANGED <<handler, file_size, attempt, delay, upl, url, escaped>>
    /\ UNCHANGED notJobVars

\* lines 119-121: except Exception
HfuExcept ==
    /\ handler = "handle_file_upload"
    /\ pc = "hfu_except"
    /\ \/ /\ Called("reply", "UploadFailed")
          /\ escaped' = escaped
       \/ /\ Called("reply_raised", "UploadFailed")
          /\ escaped' = <<"reply", "UploadFailed">>
    /\ pc' = "done"
    /\ UNCHANGED <<handler, file_size, fileExists, attempt, delay, upl, url, status, exc>>
    /\ UNCHANGED notJobVars

----------------------------------------------------------------------------
(* FileHandler.handle_file_download, src/file_handlers.py 142-181 *)

\* wasabi_client.py line 79: expires_in=3600
DefaultExpiresIn == 3600

\* file_handlers.py line 169: 'Link expires in 7 days', in seconds
SevenDays == 3600 * 24 * 7

\* the TTL with which handle_file_download calls generate_presigned_url:
\* line 155 passes the key only, so the default applies
DownloadExpiresIn == DefaultExpiresIn

\* lines 144-152: look the file up, send the first message
HfdEntry ==
    /\ handler = "handle_file_download"
    /\ pc = "start"
    /\ \E found \in BOOLEAN :
         IF found
           THEN \/ /\ Called("reply", "PreparingDownload")
                   /\ status' = "PreparingDownload"
                   /\ pc' = "hfd_presign"
                   /\ UNCHANGED <<exc, escaped>>
                \/ /\ Called("reply_raised", "PreparingDownload")
                   /\ exc' = <<"reply", "PreparingDownload">>
                   /\ pc' = "hfd_except"
                   /\ UNCHANGED <<status, escaped>>
           ELSE \/ /\ Called("reply", "FileNotFound")
                   /\ pc' = "done"
                   /\ UNCHANGED <<status, exc, escaped>>
                \/ /\ Called("reply_raised", "FileNotFound")
                   /\ exc' = <<"reply", "FileNotFound">>
                   /\ pc' = "hfd_except"
                   /\ UNCHANGED <<status, escaped>>
    /\ UNCHANGED <<handler, file_size, fileExists, attempt, delay, upl, url>>
    /\ UNCHANGED notJobVars

\* line 155 and WasabiClient.generate_presigned_url (wasabi_client.py 79-90)
HfdPresign ==
    /\ handler = "handle_file_download"
    /\ pc = "hfd_presign"
    /\ \E o \in PresignOutcomes :
         /\ log' = log \o << <<"ExpiresIn", DownloadExpiresIn>>,
                             <<"generate_presigned_url", o>> >>
         /\ IF o = "url"
              THEN /\ url' = "url"
                   /\ pc' = "hfd_send"
                   /\ exc' = exc
            ELSE IF o \in ClientErrorCodes
              THEN /\ url' = "None"
                   /\ pc' = "hfd_failed"
                   /\ exc' = exc
            ELSE /\ url' = url
                 /\ exc' = <<"generate_presigned_url", o>>
                 /\ pc' = "hfd_except"
    /\ UNCHANGED <<handler, file_size, fileExists, attempt, delay, upl, status, escaped>>
    /\ UNCHANGED notJobVars

\* lines 157-159
HfdFailed ==
    /\ handler = "handle_file_download"
    /\ pc = "hfd_failed"
    /\ \/ /\ Called("edit_text", "FailedToGenerateUrl")
          /\ status' = "FailedToGenerateUrl"
          /\ pc' = "done"
          /\ exc' = exc
       \/ /\ Called("edit_text_raised", "FailedToGenerateUrl")
          /\ status' = status
          /\ exc' = <<"edit_text", "FailedToGenerateUrl">>
          /\ pc' = "hfd_except"
    /\ UNCHANGED <<handler, file_size, fileExists, attempt, delay, upl, url, escaped>>
    /\ UNCHANGED notJobVars

\* lines 161-177: the text announcing 'Link expires in 7 days' is built, then
\* the arguments of edit_text name InlineKeyboardMarkup, which
\* file_handlers.py never imports
HfdSend ==
    /\ handler = "handle_file_download"
    /\ pc = "hfd_send"
    /\ Called("announce_ttl", SevenDays)
    /\ exc' = <<"edit_text", "NameError">>
    /\ pc' = "hfd_except"
    /\ UNCHANGED <<handler, file_size, fileExists, attempt, delay, upl, url, status, escaped>>
    /\ UNCHANGED notJobVars

\* lines 179-181: except Exception
HfdExcept ==
    /\ handler = "handle_file_download"
    /\ pc = "hfd_except"
    /\ \/ /\ Called("reply", "DownloadFailed")
          /\ escaped' = escaped
       \/ /\ Called("reply_raised", "DownloadFailed")
          /\ escaped' = <<"reply", "DownloadFailed">>
    /\ pc' = "done"
    /\ UNCHANGED <<handler, file_size, fileExists, attempt, delay, upl, url, status, exc>>
    /\ UNCHANGED notJobVars

----------------------------------------------------------------------------
Next ==
    \/ FileHandlerEntry
    \/ DownloadMedia
    \/ EditDownloadComplete
    \/ UploadAttempt
    \/ RetryNotice
    \/ BackoffSleep
    \/ EditUploadComplete
    \/ GeneratePresignedUrl
    \/ EditFinal
    \/ ExceptHandler
    \/ FinallyCleanup
    \/ HfuEntry
    \/ HfuEditTooLarge
    \/ HfuDownload
    \/ HfuEditUploading
    \/ HfuUpload
    \/ HfuUploadFailed
    \/ HfuExcept
    \/ HfdEntry
    \/ HfdPresign
    \/ HfdFailed
    \/ HfdSend
    \/ HfdExcept

Spec == Init /\ [][Next]_vars

----------------------------------------------------------------------------
(* Readings of the call log *)

\* the calls of operation op, in order
Events(op) == SelectSeq(log, LAMBDA e : e[1] = op)

Uploads == Events("upload_file")

Sleeps == Events("sleep")

\* the upload leg: upload attempts and backoff sleeps, in order
UploadLeg == SelectSeq(log, LAMBDA e : e[1] \in {"upload_file", "sleep"})

NoEditRaised == \A i \in DOMAIN log : log[i][1] # "edit_text_raised"

\* the error codes that name a permanent condition (authentication failure,
\* access denied, bucket not found)
PermanentCodes == {"InvalidAccessKeyId", "AccessDenied", "NoSuchBucket"}

TransientCodes == ClientErrorCodes \ PermanentCodes

\* the texts file_handler writes between two steps of the pipeline
IntermediateTexts == {"DownloadComplete", "RetryNotice", "UploadComplete"}

\* file_handler has given control back
Returned == handler = "file_handler" /\ pc = "done"

----------------------------------------------------------------------------
(* Claims *)

\* C1: when file_handler gives control back for an accepted file, on each of
\* the exit paths (download raised, upload raised after its retries, link
\* generation failed, a status edit raised, full success), the local file at
\* file_path does not exist.  The one path left out is os.remove itself
\* raising, where no code could have removed the file.
C1_TempFileAbsentAtExit ==
    (Returned /\ status # "none" /\ escaped[1] # "os.remove") => ~fileExists

\* C1 witness: the upload leg failed on its last attempt after a completed
\* download, the handler is finished and the file is gone.
C1_Witness ==
    /\ Returned
    /\ exc[1] = "upload_file"
    /\ Len(Uploads) = max_retries
    /\ Len(Events("os.remove")) = 1
    /\ ~fileExists

\* C2: when upload attempts 1 and 2 fail transiently and attempt 3 succeeds,
\* upload_to_wasabi returns True and the upload leg is exactly: attempt,
\* sleep base_delay, attempt, sleep base_delay*2, attempt.
C2_BackoffDelaysInOrder ==
    ( /\ handler = "file_handler"
      /\ Len(Uploads) = 3
      /\ Uploads[1][2] \in TransientCodes
      /\ Uploads[2][2] \in TransientCodes
      /\ Uploads[3][2] = "ok" )
    => /\ upl = "True"
       /\ Len(UploadLeg) = 5
       /\ UploadLeg[2] = <<"sleep", base_delay>>
       /\ UploadLeg[4] = <<"sleep", base_delay * 2>>
       /\ \A i \in {1, 3, 5} : UploadLeg[i][1] = "upload_file"

\* C2 witness: the third attempt has just succeeded after two transient
\* failures.
C2_Witness ==
    /\ handler = "file_handler"
    /\ Len(Uploads) = 3
    /\ Uploads[1][2] \in TransientCodes
    /\ Uploads[2][2] \in TransientCodes
    /\ Uploads[3][2] = "ok"
    /\ Len(Sleeps) = 2

\* C3: when upload attempt 1 raises a permanent error, exactly one upload
\* attempt is made and no backoff sleep occurs.
C3_PermanentErrorNotRetried ==
    ( /\ handler = "file_handler"
      /\ Len(Uploads) >= 1
      /\ Uploads[1][2] \in PermanentCodes )
    => /\ Len(Uploads) = 1
       /\ Len(Sleeps) = 0

\* C4: when every upload attempt fails with a retryable error,
\* upload_to_wasabi makes exactly max_retries attempts and max_retries - 1
\* sleeps, then raises the error of the last attempt, and never returns False.
C4_ExhaustedRetriesRaiseLast ==
    ( /\ handler = "file_handler"
      /\ upl \in {"raised", "False"}
      /\ \A i \in DOMAIN Uploads : Uploads[i][2] \in TransientCodes )
    => /\ Len(Uploads) = max_retries
       /\ Len(Sleeps) = max_retries - 1
       /\ upl = "raised"
       /\ exc = <<"upload_file", Uploads[Len(Uploads)][2]>>

\* C6: a file whose declared size exceeds 4 GiB is rejected before any
\* download, any local file and any object-store call; a file of exactly
\* 4 GiB is not rejected for its size.
C6_OversizeRejectedBeforeIO ==
    handler \in {"file_handler", "handle_file_upload"} =>
    /\ SizeExceeds(file_size) =>
         /\ ~fileExists
         /\ \A i \in DOMAIN log :
              log[i][1] \notin {"download_media", "upload_file", "generate_presigned_url"}
         /\ pc \in {"start", "hfu_too_large", "hfu_except", "done"}
    /\ file_size = <<4096, 0>> =>
         /\ \A i \in DOMAIN log : log[i][1] \in {"reply_text", "edit_text"} =>
              log[i][2] \notin {"LargerThan4GB", "FileTooLarge"}
         /\ pc # "hfu_too_large"

\* C6 witness: an oversize file has been turned away by file_handler.
C6_Witness ==
    /\ Returned
    /\ SizeExceeds(file_size)
    /\ log = << <<"reply_text", "LargerThan4GB">> >>

\* C7: within one job of file_handler no upload attempt precedes the
\* completed download, link issuance never precedes a successful upload, and
\* the download is attempted exactly once.
C7_StepsStrictlyOrdered ==
    handler = "file_handler" =>
      /\ \A i \in DOMAIN log : log[i][1] = "upload_file" =>
           \E j \in 1..(i - 1) : log[j] = <<"download_media", "ok">>
      /\ \A i \in DOMAIN log : log[i][1] = "generate_presigned_url" =>
           \E j \in 1..(i - 1) : log[j] = <<"upload_file", "ok">>
      /\ Len(Events("download_media")) <= 1
      /\ (status # "none" /\ pc # "download") => Len(Events("download_media")) = 1

\* C7 witness: a job that went through a retried upload and reached link
\* issuance.
C7_Witness ==
    /\ Returned
    /\ Len(Uploads) = 2
    /\ Len(Events("generate_presigned_url")) = 1
    /\ Len(Events("download_media")) = 1

\* C8: if the upload succeeded and URL generation failed, whatever the
\* failure, file_handler ends with the degraded-success status and not with
\* 'Upload failed'.
C8_LinkFailureIsDegradedSuccess ==
    ( /\ Returned
      /\ NoEditRaised
      /\ upl = "True"
      /\ \E i \in DOMAIN log :
           log[i][1] = "generate_presigned_url" /\ log[i][2] # "url" )
    => status = "UploadedNoLink"

\* the phase a final status text names
PhaseNamed(text) ==
    CASE text = "DownloadFailed" -> "download"
      [] text = "UploadFailed" -> "upload"
      [] text = "UploadedNoLink" -> "link"
      [] OTHER -> "none"

\* the phase in which the job failed
FailedPhase ==
    CASE exc[1] = "download_media" -> "download"
      [] exc[1] = "upload_file" -> "upload"
      [] exc[1] = "generate_presigned_url" \/ url = "None" -> "link"
      [] OTHER -> "none"

\* C9: when a job fails, the final status message names the phase that
\* failed: download, upload or link.
C9_FinalStatusNamesFailedPhase ==
    (Returned /\ NoEditRaised /\ FailedPhase # "none")
    => PhaseNamed(status) = FailedPhase

\* C10: an edit_text that raises between pipeline steps or at the retry
\* notice never fails the job: it is never the exception that takes
\* file_handler or upload_to_wasabi to the failure report.
C10_EditFailureNeverFailsJob ==
    ~( /\ handler = "file_handler"
       /\ exc[1] = "edit_text"
       /\ exc[2] \in IntermediateTexts
       /\ status = "UploadFailed" )

\* the latest call of the reporter sent an edit to the display
CallEmitted == call.result \in {"emitted", "edit_failed"}

\* C11: every call of progress_callback (7b178d) with current == total sends
\* an update to the display, however recent the previous one.
C11_CompletionAlwaysEmitted ==
    ( /\ reporter = "progress_callback"
      /\ call.result # "none"
      /\ call.current = call.total )
    => CallEmitted

\* C12: in bot/utils.py the completion call of progress_callback
\* (current == total) and of BotoProgress (accumulated bytes reach
\* total_size) sends an update even less than 2 seconds after the previous
\* one.  Stated for a transfer of known size.
C12_UtilsCompletionAlwaysEmitted ==
    ( /\ reporter \in {"utils.progress_callback", "BotoProgress"}
      /\ call.result # "none"
      /\ call.total > 0
      /\ call.current = call.total )
    => CallEmitted

\* C13: for progress_callback (7b178d) and FileHandler.upload_progress, an
\* emitted edit that is not the completion call comes at least 2 seconds
\* after the edit emitted before it.
C13_EditsTwoSecondsApart ==
    ( /\ reporter \in {"progress_callback", "upload_progress"}
      /\ CallEmitted
      /\ call.current # call.total
      /\ call.prev # Absent )
    => call.at - call.prev >= 2

\* C14: progress_callback (7b178d and bot/utils.py) returns normally for
\* every (current, total), total == 0 included.
C14_ProgressNeverRaises ==
    reporter \in {"progress_callback", "utils.progress_callback"}
    => call.result # "ZeroDivisionError"

\* C18: for a zero-byte file, when the chat platform, the object store and
\* the file system all do their part, file_handler ends with the success
\* status and the local file is gone; no progress call with total == 0
\* turns the job into a failure.
C18_ZeroByteFileSucceeds ==
    ( /\ Returned
      /\ status # "none"
      /\ file_size = <<0, 0>>
      /\ NoEditRaised
      /\ \A i \in DOMAIN log :
           /\ log[i][1] \in {"download_media", "os.remove"} => log[i][2] # "raise"
           /\ log[i][1] = "upload_file" => log[i][2] = "ok"
           /\ log[i][1] = "generate_presigned_url" => log[i][2] = "url" )
    => /\ status = "UploadedSuccessfully"
       /\ ~fileExists

\* C20: the TTL handle_file_download passes to the sink for the download
\* link is the 7 days (604800 seconds) its message announces.
C20_DownloadLinkTtlAsAnnounced ==
    handler = "handle_file_download" =>
      \A i \in DOMAIN log : log[i][1] = "ExpiresIn" => log[i][2] = 604800

\* stamps is the tail of the sequence all
IsSuffix(stamps, all) ==
    /\ Len(stamps) <= Len(all)
    /\ \A i \in 1..Len(stamps) : stamps[i] = all[Len(all) - Len(stamps) + i]

\* C19: for every user at most max_uploads (10) calls of is_limited that
\* returned False lie within any window shorter than time_window (3600 s); a
\* call that returns True records no timestamp; and a user's list holds that
\* user's own accepted uploads only, so no other user reduces the allowance.
C19_TenUploadsPerHourPerUser ==
    \A u \in DOMAIN user_uploads :
      /\ \A i \in 1..Len(accepted[u]) :
           (i + max_uploads) \in 1..Len(accepted[u]) =>
             accepted[u][i + max_uploads] - accepted[u][i] >= time_window
      /\ IsSuffix(user_uploads[u], accepted[u])
      /\ Len(user_uploads[u]) <= max_uploads

\* C19 witness: a user with ten accepted uploads has just been refused while
\* the other user has uploads of their own.
C19_Witness ==
    /\ rcall.result = TRUE
    /\ Len(user_uploads[rcall.user]) = max_uploads
    /\ \E v \in Users : v # rcall.user /\ Len(user_uploads[v]) = 1

\* C15: in file_handler, two jobs running at the same time never have the
\* same local file_path or the same destination key, and every job sends
\* the file its own download wrote.
C15_JobsNeverShareFiles ==
    variant = "file_handler" =>
      /\ \A j \in Jobs, k \in Jobs :
           (j # k /\ Active(j) /\ Active(k)) =>
             (FilePath(j) # FilePath(k) /\ ObjectKey(j) # ObjectKey(k))
      /\ \A j \in Jobs : jobs[j].sent \in {NoJob, j}

\* C16: the last-update table never has one entry shared by two jobs running
\* at the same time: their keys differ, and the entry under a job's key was
\* written by that job.
C16_TableEntryNeverShared ==
    /\ \A j \in Jobs, k \in Jobs :
         (j # k /\ Active(j) /\ Active(k)) => TableKey(j) # TableKey(k)
    /\ \A j \in Jobs :
         (Active(j) /\ TableKey(j) \in DOMAIN last_update_time) =>
           \/ last_update_time[TableKey(j)].by = j
           \/ ~Active(last_update_time[TableKey(j)].by)

\* C17: in every variant, while a job's upload is in flight the event loop
\* is free to run the other jobs' steps.
C17_UploadNeverHoldsLoop ==
    \A j \in Jobs : jobs[j].pc = "uploading" => blocking = NoJob

\* C21: once handle_file_upload has started the download to temp_path, the
\* file at temp_path does not exist when the handler gives control back,
\* whichever way it ends.
C21_HfuTempFileAbsentAtReturn ==
    (/\ handler = "handle_file_upload"
     /\ pc = "done"
     /\ Len(Events("download_media")) > 0) => ~fileExists

\* C22: when file_handler has finished a job, normally or by exception,
\* last_update_time holds no entry that the job wrote for its status message.
C22_NoTableEntryAfterJob ==
    variant = "file_handler" =>
      \A j \in Jobs :
        jobs[j].pc = "done" =>
          ~(/\ TableKey(j) \in DOMAIN last_update_time
            /\ last_update_time[TableKey(j)].by = j)

\* C23: once file_handler has written the final text of a job, the status
\* message shows that text from then on: no progress update scheduled by the
\* upload thread is applied after it.
C23_FinalTextIsLastEdit ==
    variant = "file_handler" =>
      \A j \in Jobs : jobs[j].pc \in {"final", "done"} => jobs[j].shown = "final"

\* C24: in bot.py, when WasabiStorage.upload_file did not store the object
\* (the upload raised, or there is no client), handle_file_upload reports the
\* cloud-upload error and stores nothing for that file; every record kept,
\* stored or pending, carries the URL of an object that was uploaded.
C24_NoRecordWithoutUpload ==
    /\ (bcall.op = "handle_file_upload" /\ bcall.sink \in {"failed", "unavailable"}) =>
         (bcall.reply = "ErrorUploadingToCloud" /\ ~bcall.added)
    /\ \A id \in DOMAIN files : files[id].wasabi_url = "https"
    /\ \A u \in DOMAIN temp_data :
         temp_data[u] # NoPending => temp_data[u].wasabi_url = "https"

\* C25: in bot.py, whenever Storage.add_file has stored the record,
\* finalize_file_upload replies with the success message, and the reply
\* "Error storing file data" is sent only when the record was not stored.
C25_StoredRecordReportedAsSuccess ==
    /\ bcall.added => bcall.reply = "FileUploadedSuccessfully"
    /\ bcall.reply = "ErrorStoringFileData" => ~bcall.added

\* C26: in bot.py, a pending_caption entry stays as it is until a text
\* message of its user hands it to finalize_file_upload; it is never
\* overwritten or dropped before that.
C26_PendingCaptionFinalizedOnce ==
    [][\A u \in DOMAIN temp_data :
         temp_data[u] # NoPending =>
           \/ temp_data'[u] = temp_data[u]
           \/ /\ bcall'.op = "handle_text"
              /\ bcall'.user = u
              /\ bcall'.added
              /\ bcall'.file_id = temp_data[u].file_id
              /\ temp_data'[u] = NoPending]_vars

\* C27: in bot.py's confirm_ callback, success is reported only when the
\* requester is the owner or an admin and the file's object is gone from the
\* sink; when the deletion at the sink failed the record is kept.
C27_DeleteReportedOnlyIfObjectDeleted ==
    /\ (bcall.op = "confirm" /\ bcall.reply = "DeletedSuccessfully") =>
         (bcall.authorised /\ bcall.name \notin sink)
    /\ (bcall.op = "confirm" /\ bcall.sink = "failed") => bcall.file_id \in DOMAIN files

RECURSIVE SumSizes(_)
SumSizes(ids) ==
    IF ids = {} THEN 0
    ELSE LET id == CHOOSE x \in ids : TRUE
         IN files[id].file_size + SumSizes(ids \ {id})

\* C28: after any sequence of Storage.add_file and Storage.delete_file calls,
\* stats.total_files is the number of file records and stats.total_size is
\* the sum of their file_size.
C28_StatsMatchRecords ==
    /\ total_files = Cardinality(DOMAIN files)
    /\ total_size = SumSizes(DOMAIN files)

C30_AdminStaysAndOnlyAdminChanges ==
    /\ [](ADMIN_ID \in allowed_users)
    /\ [][allowed_users' # allowed_users => ucall'.sender = ADMIN_ID]_vars

\* C30 witness: a /reload of the admin has put back an older list, after
\* saves that failed, and the admin is in it.
C30_Witness ==
    /\ ucall.cmd = "reload"
    /\ ucall.sender = ADMIN_ID
    /\ ucall.before # allowed_users
    /\ Cardinality(ucall.before) = 3
    /\ ADMIN_ID \in allowed_users

====
